---- MODULE Spec2Model ----
(***************************************************************************)
(* Model of Cinder/Ocata/huawei_utils.py: the name encoders, the metadata  *)
(* extraction, the name/ID resolution chains of volumes, snapshots and     *)
(* hosts, and the blocking poll helper wait_for_condition.                 *)
(*                                                                         *)
(* Python strings that the code slices, splits or measures are sequences   *)
(* of one-character strings.  Array-side IDs and metadata values, which    *)
(* the code only tests for truthiness and passes on, are TLA+ strings;     *)
(* None is the marker NoneVal.                                             *)
(***************************************************************************)
EXTENDS Integers, Sequences, FiniteSets, TLC

\* ---------------------------------------------------------------- bounds
MaxPreLen == 33        \* longest run of characters before the first '-'
MaxPolls == 3          \* latest invocation at which a predicate changes
MaxTimeout == 3        \* largest timeout, in clock ticks
MaxStep == 2           \* largest clock advance between two polls, in ticks
TicksPerSecond == 2    \* clock ticks per second (time.time() is a float)

\* ------------------------------------------------------------- constants
MAX_NAME_LENGTH == 31
MD5_HEX_LENGTH == 32

\* ------------------------------------------------------- python helpers
NoneVal == "<None>"
Absent == "<absent>"

Min(a, b) == IF a < b THEN a ELSE b
Max(a, b) == IF a > b THEN a ELSE b

\* `not v` for the ID values the resolvers test
Falsy(v) == v \in {NoneVal, ""}

\* s[:n], negative n counting from the end
PySliceTo(s, n) ==
    IF n >= 0 THEN SubSeq(s, 1, Min(n, Len(s)))
    ELSE SubSeq(s, 1, Max(Len(s) + n, 0))

\* s.split('-')[0]
RECURSIVE SplitFirst(_)
SplitFirst(s) ==
    IF s = <<>> THEN <<>>
    ELSE IF Head(s) = "-" THEN <<>>
    ELSE <<Head(s)>> \o SplitFirst(Tail(s))

IsPrefix(p, s) == Len(p) <= Len(s) /\ SubSeq(s, 1, Len(p)) = p

Digits == <<"0", "1", "2", "3", "4", "5", "6", "7", "8", "9">>
HexDigits == Digits \o <<"a", "b", "c", "d", "e", "f">>

RECURSIVE NatText(_)
NatText(n) ==
    IF n < 10 THEN <<Digits[n + 1]>>
    ELSE NatText(n \div 10) \o <<Digits[(n % 10) + 1]>>

\* six.text_type(h) of an integer
TextType(h) == IF h < 0 THEN <<"-">> \o NatText(0 - h) ELSE NatText(h)

CharCode(c) ==
    CASE c = "a" -> 97
      [] c = "b" -> 98
      [] c = "-" -> 45
      [] OTHER -> 63

RECURSIVE WeightedSum(_, _)
WeightedSum(s, i) ==
    IF s = <<>> THEN 0
    ELSE CharCode(Head(s)) * i + WeightedSum(Tail(s), i + 1)

\* hashlib.md5(s.encode('utf-8')).hexdigest(): a deterministic function of
\* the content giving MD5_HEX_LENGTH hexadecimal digits.  The digest itself
\* is abstracted by a positional checksum; only determinism, the length and
\* the alphabet are relied on.
MD5Hex(s) ==
    LET s0 == WeightedSum(s, 0) + Len(s)
        s1 == WeightedSum(s, 1)
    IN [k \in 1..MD5_HEX_LENGTH |->
            HexDigits[((s1 * k + (s0 + 3) * k * k + 5 * s0 + 11) % 16) + 1]]

\* hash(s): the interpreter's salted string hash, any integer per process
HashValues == {-58, 0, 7, 1203}

\* --------------------------------------------------------------- encoders
encode_name(id) ==
    LET encoded_name == MD5Hex(id)
        prefix == SplitFirst(id) \o <<"-">>
        postfix == PySliceTo(encoded_name, MAX_NAME_LENGTH - Len(prefix))
    IN prefix \o postfix

old_encode_name(id, h) ==
    LET pre_name == SplitFirst(id)
        vol_encoded == TextType(h)
    IN IF Head(vol_encoded) = "-" THEN pre_name \o vol_encoded
       ELSE pre_name \o <<"-">> \o vol_encoded

\* variant: the length test is `>=`
encode_host_name_AtLimit(name) ==
    IF name # <<>> /\ Len(name) >= MAX_NAME_LENGTH
    THEN PySliceTo(MD5Hex(name), MAX_NAME_LENGTH)
    ELSE name

encode_host_name(name) ==
    IF name # <<>> /\ Len(name) > MAX_NAME_LENGTH
    THEN PySliceTo(MD5Hex(name), MAX_NAME_LENGTH)
    ELSE name

old_encode_host_name(name, h) ==
    IF name # <<>> /\ Len(name) > MAX_NAME_LENGTH
    THEN TextType(h)
    ELSE name

\* ------------------------------------------------------------- metadata
Keys == {"huawei_lun_id", "huawei_lun_wwn", "huawei_sn", "hypermetro",
         "hypermetro_id", "huawei_snapshot_id", "huawei_snapshot_wwn"}

\* a Python dict over Keys; a key the dict lacks maps to Absent
EmptyDict == [k \in Keys |-> Absent]

\* d.get(k)
Get(d, k) == IF d[k] = Absent THEN NoneVal ELSE d[k]

\* six.text_type(json.loads(text)) for the JSON scalars of ScalarTexts
JsonScalarText(text) ==
    CASE text = "null" -> "None"
      [] text = "0" -> "0"
      [] text = "11" -> "11"
      [] text = "\"7\"" -> "7"

ScalarTexts == {"null", "0", "11", "\"7\""}

\* volume.metadata of an objects.Volume
get_volume_metadata(volume) == volume.metadata

\* volume.admin_metadata
get_admin_metadata(volume) == volume.admin_metadata

\* snapshot.metadata of an objects.Snapshot
get_snapshot_metadata_value(snapshot) == snapshot.metadata

\* variant: no `if not volume.provider_location` guard, json.loads raises
get_lun_metadata_NoEmptyGuard(volume) ==
    LET pl == volume.provider_location
    IN CASE pl.t \in {"empty", "invalid"} ->
              [raised |-> TRUE, value |-> EmptyDict]
         [] pl.t = "dict" -> [raised |-> FALSE, value |-> pl.d]
         [] pl.t = "scalar" ->
              [raised |-> FALSE,
               value |-> [EmptyDict EXCEPT
                   !["huawei_lun_id"] = JsonScalarText(pl.text),
                   !["huawei_lun_wwn"] =
                       Get(get_admin_metadata(volume), "huawei_lun_wwn")]]

\* provider_location is [t, d, text]: t = "empty" (None or ''), "invalid"
\* (json.loads raises ValueError), "dict" (decodes to the mapping d) or
\* "scalar" (decodes to the JSON scalar written text).
get_lun_metadata(volume) ==
    LET pl == volume.provider_location
        admin_metadata == get_admin_metadata(volume)
        metadata_ == get_volume_metadata(volume)
    IN CASE pl.t = "empty" -> [raised |-> FALSE, value |-> EmptyDict]
         [] pl.t = "invalid" -> [raised |-> TRUE, value |-> EmptyDict]
         [] pl.t = "dict" -> [raised |-> FALSE, value |-> pl.d]
         [] pl.t = "scalar" ->
              [raised |-> FALSE,
               value |-> [EmptyDict EXCEPT
                   !["huawei_lun_id"] = JsonScalarText(pl.text),
                   !["huawei_lun_wwn"] = Get(admin_metadata, "huawei_lun_wwn"),
                   !["huawei_sn"] = Get(metadata_, "huawei_sn"),
                   !["hypermetro"] =
                       IF Falsy(Get(metadata_, "hypermetro_id"))
                       THEN "False" ELSE "True"]]

get_snapshot_metadata(snapshot) ==
    LET pl == snapshot.provider_location
        metadata_ == get_snapshot_metadata_value(snapshot)
    IN CASE pl.t = "empty" -> [raised |-> FALSE, value |-> EmptyDict]
         [] pl.t = "invalid" -> [raised |-> TRUE, value |-> EmptyDict]
         [] pl.t = "dict" -> [raised |-> FALSE, value |-> pl.d]
         [] pl.t = "scalar" ->
              [raised |-> FALSE,
               value |-> [EmptyDict EXCEPT
                   !["huawei_snapshot_id"] = JsonScalarText(pl.text),
                   !["huawei_snapshot_wwn"] =
                       Get(metadata_, "huawei_snapshot_wwn")]]

\* ----------------------------------------------------------------- inputs
RECURSIVE Rep(_, _)
Rep(c, n) == IF n = 0 THEN <<>> ELSE <<c>> \o Rep(c, n - 1)

Tails == {<<>>, <<"-">>, <<"-", "b">>, <<"-", "b", "-", "a">>}

\* identifiers and host names: a run of 0..MaxPreLen characters, then
\* nothing or a '-' separated rest
Ids == {Rep("a", i) \o t : i \in 0..MaxPreLen, t \in Tails}

\* identifiers of the volumes and snapshots that are resolved
ObjectIds == {Rep("a", 2) \o <<"-", "b", "-", "a">>, <<"b">>}

\* what the array client answers to a lookup by name
Answers == {NoneVal, "", "X"}

IdValues == {Absent, NoneVal, "", "Y"}
WwnValues == {Absent, "W"}

Locations(idKey, wwnKey) ==
    {[t |-> "empty", d |-> EmptyDict, text |-> ""],
     [t |-> "invalid", d |-> EmptyDict, text |-> "{"]}
    \cup {[t |-> "scalar", d |-> EmptyDict, text |-> x] : x \in ScalarTexts}
    \cup {[t |-> "dict",
           d |-> [EmptyDict EXCEPT ![idKey] = i, ![wwnKey] = w],
           text |-> ""] : i \in IdValues, w \in WwnValues}

Volumes ==
    [provider_location : Locations("huawei_lun_id", "huawei_lun_wwn"),
     admin_metadata : {EmptyDict,
                       [EmptyDict EXCEPT !["huawei_lun_wwn"] = "AW"]},
     metadata : {EmptyDict,
                 [EmptyDict EXCEPT !["huawei_sn"] = "SN",
                                   !["hypermetro_id"] = "H"]}]

Snapshots ==
    [provider_location : Locations("huawei_snapshot_id",
                                   "huawei_snapshot_wwn"),
     admin_metadata : {EmptyDict},
     metadata : {EmptyDict,
                 [EmptyDict EXCEPT !["huawei_snapshot_wwn"] = "SW"]}]

NoObject ==
    [provider_location |-> [t |-> "empty", d |-> EmptyDict, text |-> ""],
     admin_metadata |-> EmptyDict, metadata |-> EmptyDict]

\* what func() does on one invocation
FalsyResults == {"False", "None"}
TruthyResults == {"True", "ready"}
Exceptions == {"KeyError", "LoopingCallDone"}

\* func: falsy until invocation n, where it returns truthy ("true_at") or
\* raises ("raise_at"); "never" stays falsy
Scripts ==
    [kind : {"never"}, n : {0}, falsy : FalsyResults, last : {"False"}]
    \cup [kind : {"true_at"}, n : 1..MaxPolls, falsy : FalsyResults,
          last : TruthyResults]
    \cup [kind : {"raise_at"}, n : 1..MaxPolls, falsy : FalsyResults,
          last : Exceptions]

NoScript == [kind |-> "never", n |-> 0, falsy |-> "False", last |-> "False"]

\* ------------------------------------------------------------------ state
VARIABLES
    op,           \* the function that was called
    pc,           \* its position: "start", a lookup, "polling", "done", "raised"
    id,           \* volume.id, snapshot.id, host_name or the encoder's input
    obj,          \* the volume or snapshot
    metadata,     \* local metadata of the resolvers
    log,          \* lookups made so far, in order, with the metadata fallback
    ret,          \* the returned (ID, WWN)
    encoded,      \* the encoder's result
    script,       \* behaviour of func
    timeout,      \* wait_for_condition's timeout, in ticks
    start_time,   \* time.time() at the call, in ticks
    now,          \* the clock, in ticks
    observed,     \* results of func so far, in order
    outcome       \* how timer.start(...).wait() ended

vars == <<op, pc, id, obj, metadata, log, ret, encoded, script, timeout,
          start_time, now, observed, outcome>>

resolveVars == <<metadata, log, ret>>
waitVars == <<script, timeout, start_time, now, observed, outcome>>

NoRet == [id |-> NoneVal, wwn |-> NoneVal]
NoOutcome == [exc |-> "none", cause |-> "", func |-> ""]

FuncName == "is_ready"

StartTimes == {TicksPerSecond + f : f \in 0..(TicksPerSecond - 1)}

InitCommon ==
    /\ pc = "start"
    /\ metadata = EmptyDict
    /\ log = <<>>
    /\ ret = NoRet
    /\ encoded = <<>>
    /\ observed = <<>>
    /\ outcome = NoOutcome

InitNoWait ==
    /\ script = NoScript
    /\ timeout = 0
    /\ start_time = 0
    /\ now = 0

Init ==
    /\ InitCommon
    /\ \/ /\ op \in {"encode_name", "encode_host_name", "get_host_id"}
          /\ id \in Ids
          /\ obj = NoObject
          /\ InitNoWait
       \/ /\ op = "get_volume_lun_id"
          /\ id \in ObjectIds
          /\ obj \in Volumes
          /\ InitNoWait
       \/ /\ op = "get_snapshot_id"
          /\ id \in ObjectIds
          /\ obj \in Snapshots
          /\ InitNoWait
       \/ /\ op = "wait_for_condition"
          /\ id = <<>>
          /\ obj = NoObject
          /\ script \in Scripts
          /\ timeout \in 0..MaxTimeout
          /\ start_time \in StartTimes
          /\ now = start_time

\* --------------------------------------------------------------- encoders
EncodeName ==
    /\ op = "encode_name" /\ pc = "start"
    /\ encoded' = encode_name(id)
    /\ pc' = "done"
    /\ UNCHANGED <<op, id, obj, resolveVars, waitVars>>

EncodeHostName ==
    /\ op = "encode_host_name" /\ pc = "start"
    /\ encoded' = encode_host_name(id)
    /\ pc' = "done"
    /\ UNCHANGED <<op, id, obj, resolveVars, waitVars>>

\* ------------------------------------------------------ get_volume_lun_id
Lookup(step, name, ans, h) ==
    [step |-> step, name |-> name, ans |-> ans, hash |-> h]

\* metadata = get_lun_metadata(volume)
VolumeGetMetadata ==
    /\ op = "get_volume_lun_id" /\ pc = "start"
    /\ LET m == get_lun_metadata(obj)
       IN /\ metadata' = m.value
          /\ pc' = IF m.raised THEN "raised" ELSE "new_lookup"
    /\ UNCHANGED <<op, id, obj, log, ret, encoded, waitVars>>

\* variant: the old-scheme lookup is not guarded by `if not lun_id`
VolumeNewLookup_AlwaysOld ==
    /\ op = "get_volume_lun_id" /\ pc = "new_lookup"
    /\ \E lun_id \in Answers :
          log' = Append(log, Lookup("new", encode_name(id), lun_id, 0))
    /\ pc' = "old_lookup"
    /\ UNCHANGED <<op, id, obj, metadata, ret, encoded, waitVars>>

\* lun_id = client.get_lun_id_by_name(encode_name(volume.id)); a hit skips
\* both `if not lun_id` blocks and returns
VolumeNewLookup ==
    /\ op = "get_volume_lun_id" /\ pc = "new_lookup"
    /\ \E lun_id \in Answers :
          /\ log' = Append(log, Lookup("new", encode_name(id), lun_id, 0))
          /\ IF Falsy(lun_id)
             THEN pc' = "old_lookup" /\ ret' = ret
             ELSE /\ pc' = "done"
                  /\ ret' = [id |-> lun_id,
                             wwn |-> Get(metadata, "huawei_lun_wwn")]
    /\ UNCHANGED <<op, id, obj, metadata, encoded, waitVars>>

\* lun_id = client.get_lun_id_by_name(old_encode_name(volume.id)), then the
\* metadata fallback if that missed too, then return
VolumeOldLookup ==
    /\ op = "get_volume_lun_id" /\ pc = "old_lookup"
    /\ \E h \in HashValues, lun_id \in Answers :
          LET l == Append(log, Lookup("old", old_encode_name(id, h), lun_id, h))
              fromMetadata == Get(metadata, "huawei_lun_id")
          IN IF Falsy(lun_id)
             THEN /\ log' = Append(l, Lookup("metadata", <<>>, fromMetadata, 0))
                  /\ ret' = [id |-> fromMetadata,
                             wwn |-> Get(metadata, "huawei_lun_wwn")]
             ELSE /\ log' = l
                  /\ ret' = [id |-> lun_id,
                             wwn |-> Get(metadata, "huawei_lun_wwn")]
    /\ pc' = "done"
    /\ UNCHANGED <<op, id, obj, metadata, encoded, waitVars>>

\* -------------------------------------------------------- get_snapshot_id
\* metadata = get_snapshot_metadata(snapshot);
\* snapshot_id = metadata.get('huawei_snapshot_id'); a hit skips both
\* `if not snapshot_id` blocks and returns
SnapshotGetMetadata ==
    /\ op = "get_snapshot_id" /\ pc = "start"
    /\ LET m == get_snapshot_metadata(obj)
           snapshot_id == Get(m.value, "huawei_snapshot_id")
       IN /\ metadata' = m.value
          /\ IF m.raised
             THEN pc' = "raised" /\ log' = log /\ ret' = ret
             ELSE /\ log' = Append(log, Lookup("metadata", <<>>, snapshot_id, 0))
                  /\ IF Falsy(snapshot_id)
                     THEN pc' = "new_lookup" /\ ret' = ret
                     ELSE /\ pc' = "done"
                          /\ ret' = [id |-> snapshot_id,
                                     wwn |-> Get(m.value, "huawei_snapshot_wwn")]
    /\ UNCHANGED <<op, id, obj, encoded, waitVars>>

SnapshotNewLookup ==
    /\ op = "get_snapshot_id" /\ pc = "new_lookup"
    /\ \E snapshot_id \in Answers :
          /\ log' = Append(log, Lookup("new", encode_name(id), snapshot_id, 0))
          /\ IF Falsy(snapshot_id)
             THEN pc' = "old_lookup" /\ ret' = ret
             ELSE /\ pc' = "done"
                  /\ ret' = [id |-> snapshot_id,
                             wwn |-> Get(metadata, "huawei_snapshot_wwn")]
    /\ UNCHANGED <<op, id, obj, metadata, encoded, waitVars>>

SnapshotOldLookup ==
    /\ op = "get_snapshot_id" /\ pc = "old_lookup"
    /\ \E h \in HashValues, snapshot_id \in Answers :
          /\ log' = Append(log, Lookup("old", old_encode_name(id, h),
                                       snapshot_id, h))
          /\ ret' = [id |-> snapshot_id,
                     wwn |-> Get(metadata, "huawei_snapshot_wwn")]
    /\ pc' = "done"
    /\ UNCHANGED <<op, id, obj, metadata, encoded, waitVars>>

\* ------------------------------------------------------------ get_host_id
\* variant: no `if encoded_name == host_name: return host_id`
HostNewLookup_NoShortCircuit ==
    /\ op = "get_host_id" /\ pc = "start"
    /\ \E host_id \in Answers :
          /\ log' = Append(log, Lookup("new", encode_host_name(id), host_id, 0))
          /\ IF ~Falsy(host_id)
             THEN pc' = "done" /\ ret' = [id |-> host_id, wwn |-> NoneVal]
             ELSE pc' = "old_lookup" /\ ret' = ret
    /\ UNCHANGED <<op, id, obj, metadata, encoded, waitVars>>

\* host_id = client.get_host_id_by_name(encode_host_name(host_name));
\* returns at once when the encoded name is the host name, or on a hit
HostNewLookup ==
    /\ op = "get_host_id" /\ pc = "start"
    /\ \E host_id \in Answers :
          LET encoded_name == encode_host_name(id)
          IN /\ log' = Append(log, Lookup("new", encoded_name, host_id, 0))
             /\ IF encoded_name = id \/ ~Falsy(host_id)
                THEN pc' = "done" /\ ret' = [id |-> host_id, wwn |-> NoneVal]
                ELSE pc' = "old_lookup" /\ ret' = ret
    /\ UNCHANGED <<op, id, obj, metadata, encoded, waitVars>>

HostOldLookup ==
    /\ op = "get_host_id" /\ pc = "old_lookup"
    /\ \E h \in HashValues, host_id \in Answers :
          /\ log' = Append(log, Lookup("old", old_encode_host_name(id, h),
                                       host_id, h))
          /\ ret' = [id |-> host_id, wwn |-> NoneVal]
    /\ pc' = "done"
    /\ UNCHANGED <<op, id, obj, metadata, encoded, waitVars>>

\* ----------------------------------------------------- wait_for_condition
\* int(t) of a clock reading in ticks
IntTime(t) == (t \div TicksPerSecond) * TicksPerSecond

\* what func() does on its k-th invocation
FuncCall(k) ==
    IF script.kind = "never" \/ k < script.n
    THEN [raises |-> FALSE, value |-> script.falsy]
    ELSE [raises |-> script.kind = "raise_at", value |-> script.last]

TimeoutError ==
    [exc |-> "VolumeBackendAPIException", cause |-> "", func |-> FuncName]

\* variant: `if res is True`
_inner_TruthyIsTrue(r, t) ==
    IF r.raises
    THEN [exc |-> "VolumeBackendAPIException", cause |-> r.value, func |-> ""]
    ELSE IF r.value = "True"
    THEN [exc |-> "LoopingCallDone", cause |-> "", func |-> ""]
    ELSE IF IntTime(t) - start_time > timeout THEN TimeoutError
    ELSE NoOutcome

\* variant: the timeout test is `>=`
_inner_TimeoutAtEqual(r, t) ==
    IF r.raises
    THEN [exc |-> "VolumeBackendAPIException", cause |-> r.value, func |-> ""]
    ELSE IF r.value \notin FalsyResults
    THEN [exc |-> "LoopingCallDone", cause |-> "", func |-> ""]
    ELSE IF IntTime(t) - start_time >= timeout THEN TimeoutError
    ELSE NoOutcome

\* variant: `except Exception: res = False`
_inner_RetryOnException(r, t) ==
    IF ~r.raises /\ r.value \notin FalsyResults
    THEN [exc |-> "LoopingCallDone", cause |-> "", func |-> ""]
    ELSE IF IntTime(t) - start_time > timeout THEN TimeoutError
    ELSE NoOutcome

\* variant: the timeout test comes before `if res`
_inner_TimeoutFirst(r, t) ==
    IF r.raises
    THEN [exc |-> "VolumeBackendAPIException", cause |-> r.value, func |-> ""]
    ELSE IF IntTime(t) - start_time > timeout THEN TimeoutError
    ELSE IF r.value \notin FalsyResults
    THEN [exc |-> "LoopingCallDone", cause |-> "", func |-> ""]
    ELSE NoOutcome

\* one run of _inner with func's behaviour r at clock reading t: the
\* exception it raises, "none" when it returns
_inner(r, t) ==
    IF r.raises
    THEN [exc |-> "VolumeBackendAPIException", cause |-> r.value, func |-> ""]
    ELSE IF r.value \notin FalsyResults
    THEN [exc |-> "LoopingCallDone", cause |-> "", func |-> ""]
    ELSE IF IntTime(t) - start_time > timeout THEN TimeoutError
    ELSE NoOutcome

\* start_time = time.time(); timer.start(interval=interval)
WaitStart ==
    /\ op = "wait_for_condition" /\ pc = "start"
    /\ pc' = "polling"
    /\ UNCHANGED <<op, id, obj, resolveVars, encoded, waitVars>>

\* The looping call runs _inner once, dt ticks after the previous run (any
\* delay for the first run): LoopingCallDone ends wait() normally, any
\* other exception leaves wait() raising it, a return keeps the timer going.
Poll ==
    /\ op = "wait_for_condition" /\ pc = "polling"
    /\ \E dt \in 0..MaxStep :
          /\ observed # <<>> => dt > 0
          /\ LET r == FuncCall(Len(observed) + 1)
                 e == _inner(r, now + dt)
             IN /\ now' = now + dt
                /\ observed' = Append(observed, r)
                /\ outcome' = e
                /\ pc' = CASE e.exc = "none" -> "polling"
                           [] e.exc = "LoopingCallDone" -> "done"
                           [] OTHER -> "raised"
    /\ UNCHANGED <<op, id, obj, resolveVars, encoded, script, timeout,
                   start_time>>

Next ==
    \/ EncodeName
    \/ EncodeHostName
    \/ VolumeGetMetadata
    \/ VolumeNewLookup
    \/ VolumeOldLookup
    \/ SnapshotGetMetadata
    \/ SnapshotNewLookup
    \/ SnapshotOldLookup
    \/ HostNewLookup
    \/ HostOldLookup
    \/ WaitStart
    \/ Poll

Spec == Init /\ [][Next]_vars

\* the call starts the timer, which keeps firing while wait() has not ended
FairSpec == Spec /\ WF_vars(WaitStart) /\ WF_vars(Poll)

\* ============================================================ properties
Resolvers == {"get_volume_lun_id", "get_snapshot_id", "get_host_id"}
ChainOrder == <<"new", "old", "metadata">>
Last(q) == q[Len(q)]
Elapsed == now - start_time
TimedOut == pc = "raised" /\ outcome.func = FuncName

\* the shape of a new-name, old-name, metadata chain over the log so far
ChainShape(idKey) ==
    /\ Len(log) <= 3
    /\ \A i \in 1..Len(log) : log[i].step = ChainOrder[i]
    /\ \A i \in 2..Len(log) : Falsy(log[i - 1].ans)
    /\ Len(log) >= 1 => log[1].name = encode_name(id)
    /\ Len(log) >= 2 => log[2].name = old_encode_name(id, log[2].hash)
    /\ Len(log) = 3 => log[3].ans = Get(metadata, idKey)
    /\ pc = "done" =>
          /\ Len(log) >= 1
          /\ ret.id = Last(log).ans
          /\ Len(log) < 3 => ~Falsy(Last(log).ans)

\* C1: get_volume_lun_id looks the volume up by its new-scheme name, only
\* after a miss by its old-scheme name, only after a second miss in the
\* metadata record's huawei_lun_id; it returns the first non-empty value in
\* that order and performs no later step after an earlier one has hit.
C1_VolumeFallbackChain ==
    (op = "get_volume_lun_id" /\ pc # "raised") => ChainShape("huawei_lun_id")

C1_Witness ==
    /\ op = "get_volume_lun_id" /\ pc = "done"
    /\ Len(log) = 3 /\ ret.id = "Y"

\* C2: get_snapshot_id follows the same chain as get_volume_lun_id: the
\* client is queried by the new-scheme name first, then by the old-scheme
\* name, and huawei_snapshot_id of the metadata record is the last resort.
C2_SnapshotChainAsVolume ==
    (op = "get_snapshot_id" /\ pc # "raised") =>
        ChainShape("huawei_snapshot_id")

\* C3: get_host_id makes exactly one lookup and returns its answer, hit or
\* not, for a host name that encode_host_name leaves unchanged; for a longer
\* host name it makes the old-scheme lookup if and only if the new-scheme
\* lookup returned nothing, and then returns the old-scheme answer.
C3_HostShortCircuit ==
    (op = "get_host_id" /\ pc = "done") =>
        /\ log[1].step = "new" /\ log[1].name = encode_host_name(id)
        /\ Len(id) <= MAX_NAME_LENGTH =>
              Len(log) = 1 /\ ret.id = log[1].ans
        /\ Len(id) > MAX_NAME_LENGTH =>
              /\ Len(log) = 2 <=> Falsy(log[1].ans)
              /\ Len(log) = 1 => ret.id = log[1].ans
              /\ Len(log) = 2 =>
                    /\ log[2].step = "old"
                    /\ log[2].name = old_encode_host_name(id, log[2].hash)
                    /\ ret.id = log[2].ans

C3_Witness ==
    /\ op = "get_host_id" /\ pc = "done"
    /\ Len(id) > MAX_NAME_LENGTH /\ Len(log) = 2 /\ ret.id = "X"

IdKey ==
    IF op = "get_snapshot_id" THEN "huawei_snapshot_id" ELSE "huawei_lun_id"

AllLookupsMiss ==
    \A i \in 1..Len(log) : log[i].step # "metadata" => Falsy(log[i].ans)

\* C4: a resolver never raises because nothing was found: the only raise is
\* a provider_location that is not JSON, and when every client lookup
\* returns nothing and the metadata record holds no array ID, the call
\* returns a not-found sentinel (None or empty) as the ID.
C4_NotFoundIsNotAnError ==
    op \in Resolvers =>
        /\ pc = "raised" => obj.provider_location.t = "invalid"
        /\ (pc = "done" /\ AllLookupsMiss
              /\ (op # "get_host_id" => Falsy(Get(metadata, IdKey)))) =>
                 Falsy(ret.id)

C4_Witness ==
    /\ op = "get_snapshot_id" /\ pc = "done"
    /\ Len(log) = 3 /\ AllLookupsMiss /\ ret.id = NoneVal

IsFalsyReturn(r) == ~r.raises /\ r.value \in FalsyResults
IsTruthyReturn(r) == ~r.raises /\ r.value \notin FalsyResults

C5_Inv ==
    op = "wait_for_condition" =>
        /\ pc = "done" =>
              /\ outcome.exc = "LoopingCallDone"
              /\ script.kind = "true_at"
              /\ Len(observed) = script.n
              /\ \A i \in 1..(Len(observed) - 1) : IsFalsyReturn(observed[i])
              /\ IsTruthyReturn(Last(observed))
        /\ (script.kind = "true_at" /\ Len(observed) >= script.n) =>
              pc = "done" /\ Len(observed) = script.n

\* C5: when func is falsy on its first n-1 invocations and truthy on the
\* n-th, wait_for_condition ends normally after exactly n invocations, n-1
\* of them observed falsy, and func is not invoked after that.
C5_SuccessAtFirstTruthy ==
    [](C5_Inv) /\ [][pc = "done" => observed' = observed]_vars

C5_Witness ==
    /\ op = "wait_for_condition" /\ pc = "done"
    /\ script.n = 3 /\ Len(observed) = 3

\* C6: with a func that always returns falsy, wait_for_condition ends by
\* raising the timeout VolumeBackendAPIException naming func, and only when
\* more than timeout has elapsed since the start; it never ends normally.
C6_AlwaysFalseTimesOut ==
    /\ (op = "wait_for_condition" /\ script.kind = "never") ~>
          (TimedOut /\ outcome.exc = "VolumeBackendAPIException")
    /\ []((op = "wait_for_condition" /\ script.kind = "never") =>
             pc # "done")
    /\ []((op = "wait_for_condition" /\ TimedOut) => Elapsed > timeout)

C6_Witness ==
    /\ op = "wait_for_condition" /\ script.kind = "never"
    /\ TimedOut /\ Len(observed) >= 2

C7_Inv ==
    op = "wait_for_condition" =>
        \A i \in 1..Len(observed) :
            observed[i].raises =>
                /\ i = Len(observed)
                /\ pc = "raised"
                /\ outcome = [exc |-> "VolumeBackendAPIException",
                              cause |-> observed[i].value, func |-> ""]

\* C7: when func raises, wait_for_condition ends at once with one
\* VolumeBackendAPIException wrapping what func raised; func is not invoked
\* again and neither success nor the timeout is reported.
C7_NoRetryOnException ==
    [](C7_Inv)
    /\ [][pc = "raised" =>
             (observed' = observed /\ outcome' = outcome /\ pc' = pc)]_vars

C7_Witness ==
    /\ op = "wait_for_condition" /\ pc = "raised"
    /\ outcome.cause = "KeyError" /\ Len(observed) = 2

\* C8: the length of encode_name(id) never exceeds MAX_NAME_LENGTH, for
\* every identifier, whatever the length of its part before the first '-'.
C8_EncodeNameBounded ==
    (op = "encode_name" /\ pc = "done") => Len(encoded) <= MAX_NAME_LENGTH

\* C9: encode_host_name returns a name of at most MAX_NAME_LENGTH characters
\* unchanged, and for a longer name returns exactly MAX_NAME_LENGTH
\* characters that are a prefix of the name's MD5 hex digest.
C9_EncodeHostName ==
    (op = "encode_host_name" /\ pc = "done") =>
        /\ Len(id) <= MAX_NAME_LENGTH => encoded = id
        /\ Len(id) > MAX_NAME_LENGTH =>
              /\ Len(encoded) = MAX_NAME_LENGTH
              /\ IsPrefix(encoded, MD5Hex(id))

C9_Witness ==
    /\ op = "encode_host_name" /\ pc = "done"
    /\ Len(id) > MAX_NAME_LENGTH /\ Len(encoded) = MAX_NAME_LENGTH

\* C10: the timeout is looked at only after a falsy observation: func is
\* invoked at least once before wait_for_condition ends, the timeout error
\* always follows a falsy observation in the same poll, and a truthy result
\* gives success even when more than timeout has already elapsed.
C10_SuccessBeforeTimeout ==
    op = "wait_for_condition" =>
        /\ pc \in {"done", "raised"} => Len(observed) >= 1
        /\ TimedOut => IsFalsyReturn(Last(observed))
        /\ (observed # <<>> /\ IsTruthyReturn(Last(observed))) =>
              pc = "done" /\ outcome.exc = "LoopingCallDone"

C10_Witness ==
    /\ op = "wait_for_condition" /\ pc = "done"
    /\ Len(observed) = 1
    /\ IntTime(now) - start_time > timeout

====
